---- MODULE Spec2Model ----
(***************************************************************************)
(* Authenticated API client of the Pasos app: the axios request and        *)
(* response interceptors with single-flight token refresh (two             *)
(* implementations, src/unnamed/part_019 and src/unnamed/part_020) over    *)
(* the token store (src/src/utils/tokenStorage.ts: localStorage on the     *)
(* web, Capacitor Preferences on native, in two variants), and             *)
(* authService.login, register, logout and refreshToken                    *)
(* (src/src/services/authService.ts).  Beside the client, three React      *)
(* components that share no state with it: AuthProvider with a             *)
(* ProtectedRoute below it (src/src/contexts/AuthContext.tsx,              *)
(* src/unnamed/part_008), the search modals with their debounce timer      *)
(* (src/src/components/sharing/FriendsList.tsx, src/unnamed/part_003), and *)
(* the useGoals hook (src/src/hooks/useGoals.ts).  Each specification      *)
(* drives one of them and leaves the others idle.                          *)
(*                                                                         *)
(* JavaScript runs one event loop: the code between two awaits is one      *)
(* action.  An await of a network call or of a native Preferences call is  *)
(* a suspension point at which any other handler may run; Preferences      *)
(* calls of different callers complete in any order, since the API         *)
(* promises none.  On the web the token store is synchronous, so an await  *)
(* of it only yields to the microtasks already scheduled: no network or    *)
(* user event is delivered before the continuation runs (MacrotaskReady).  *)
(*                                                                         *)
(* Tokens are numbered by the pair they belong to: pair n consists of      *)
(* access token n and refresh token n, and 0 stands for no token.          *)
(***************************************************************************)
EXTENDS Integers, Sequences, FiniteSets, TLC

\* ---------------------------------------------------------------- bounds
NReq == 3          \* requests submitted through the client
NCall == 3         \* calls of AuthProvider.login / register (SpecProvider)
MaxChanges == 3    \* input changes of the search modal (SpecSearch)
NGoalCall == 3     \* calls of createGoal / updateGoal (SpecGoals)
MaxGoals == 2      \* goals in the list when the calls begin (SpecGoals)
MaxSignOut == 2    \* calls of AuthProvider.logout (SpecProvider)
NWave == 4         \* requests of the web-only specification SpecWave
MaxPair == 3       \* token pairs the backend hands out (pair 1 is the login pair)
MaxLogout == 1     \* calls of authService.logout
MaxFaults == 1     \* token store calls that throw (SpecFault)
MaxService == 1    \* calls of authService.refreshToken (SpecAuth)
MaxLogin == 1      \* calls of authService.login / register (SpecLogin)

Keys == {"a", "r"}             \* auth_access_token, auth_refresh_token
NoToken == 0                   \* getItem / Preferences.get answer null
Undefined == -1                \* a field the response body lacks: undefined in a
                               \* variable, the string "undefined" once stored

\* ------------------------------------------------------------- variables
VARIABLES
  impl,          \* "p19": part_019 client, "p20": part_020 client
  storage,       \* "web" | "nativeSeq" | "nativeAll" (tokenStorage variant)
  accessTok,     \* stored auth_access_token   (0 = absent, n = token of pair n)
  refreshTok,    \* stored auth_refresh_token
  isRefreshing,  \* module flag
  failedQueue,   \* failedRequestsQueue / failedQueue: sequence of requests
  kind,          \* per request: "api" | "logout"
  pc,            \* per request: position of its promise chain
  retry,         \* per request: originalRequest._retry
  hdr,           \* per request: headers.Authorization bearer token (0 = none)
  sends,         \* per request: times handed to the transport
  result,        \* per request: what the caller's promise settled with
  why,           \* per handler: which failure branch it is in
  newTok,        \* per handler: token pair of the refresh response
  lacks,         \* per handler: keys the body of the refresh response lacks
  written,       \* per storage call in progress: keys already written
  issued,        \* backend: token pairs handed out so far
  faults,        \* platform: token store calls that have thrown so far
  attempts,      \* history: one record per refresh attempt (epoch)
  qEpoch,        \* history: per request, attempt during which it was last queued
  qSeq,          \* history: per request, rank of its last push among all pushes
  rel,           \* history: per request, how the queue last released it
  replayLog,     \* history: replays in the order they were issued
  resp,          \* history: per request, the last answer the transport gave it
  \* AuthProvider (src/src/contexts/AuthContext.tsx) and ProtectedRoute
  user,          \* useState: NoUser or the email of the signed-in user
  isLoading,     \* useState
  authCalls,     \* per call of login / register: kind, email, position
  logouts,       \* history: calls of logout so far
  setBy,         \* history: the call whose setUser gave user its value
  location,      \* the path of the route the router shows
  redirectTo,    \* prop of ProtectedRoute (Undefined: not given)
  rendered,      \* what ProtectedRoute rendered last
  \* AddFriendModal / InviteUserModal (FriendsList.tsx, part_003)
  modalKind,     \* which performSearch the modal has: "trim" | "min2"
  modal,         \* "closed" | "open" | "dismissing" (closed by its button,
                 \*   onDidDismiss still to come)
  searchQuery,   \* useState
  searching,     \* useState
  searchResults, \* useState: the query whose results are shown, "" for none
  debounceTimerRef, \* useRef: 0 (null) or the id of the last timer set
  timers,        \* platform: the timeouts set and neither fired nor cleared
  timerIds,      \* platform: timeouts set so far (ids are not reused)
  inflight,      \* the onSearch calls that have not answered yet
  searches,      \* history: the arguments of performSearch, in call order
  sinceChange,   \* history: ticks since the last input change (capped)
  \* useGoals (src/src/hooks/useGoals.ts)
  goals,         \* useState: the list of goals, each with id and revision
  goalsError,    \* useState error: "null" or a message
  summary,       \* useState: 0 (null) or the number of the summary fetched
  summaryLoading, \* useState
  summaryCalls,  \* the getSummary calls that have not answered yet
  goalCalls,     \* per call of createGoal / updateGoal: op, goalId, position,
                 \*   the answer it got and what it returned
  goalIds        \* backend: goal ids handed out so far

\* The requests of the run, numbered from 1.
Req == DOMAIN pc

vars == <<impl, storage, accessTok, refreshTok, isRefreshing, failedQueue,
          kind, pc, retry, hdr, sends, result, why, newTok, lacks, written,
          issued,
          faults, attempts, qEpoch, qSeq, rel, replayLog, resp,
          user, isLoading, authCalls, logouts, setBy, location, redirectTo,
          rendered,
          modalKind, modal, searchQuery, searching, searchResults,
          debounceTimerRef, timers, timerIds, inflight, searches, sinceChange,
          goals, goalsError, summary, summaryLoading, summaryCalls, goalCalls,
          goalIds>>

cfgVars == <<impl, storage>>
storeVars == <<accessTok, refreshTok>>
histVars == <<attempts, qEpoch, qSeq, rel, replayLog, resp>>

\* The state of the API client and of the token store.
clientVars == <<impl, storage, accessTok, refreshTok, isRefreshing, failedQueue,
                kind, pc, retry, hdr, sends, result, why, newTok, lacks,
                written, issued, faults, attempts, qEpoch, qSeq, rel,
                replayLog, resp>>

\* The state of the React components.
providerVars == <<user, isLoading, authCalls, logouts, setBy, location,
                  redirectTo, rendered>>
modalVars == <<modalKind, modal, searchQuery, searching, searchResults,
               debounceTimerRef, timers, timerIds, inflight, searches,
               sinceChange>>
goalVars == <<goals, goalsError, summary, summaryLoading, summaryCalls,
              goalCalls, goalIds>>
pageVars == <<providerVars, modalVars, goalVars>>

\* --------------------------------------------------------------- helpers
\* The set of the elements of a sequence.
Range(s) == {s[i] : i \in 1..Len(s)}

\* Storage awaits whose continuation is a microtask on the web.
StoragePcs ==
  {"attach", "getRT", "hSet", "hClr", "lClr", "sGetRT", "sSet", "sClr", "aSet"}

\* Positions in which a request awaits its setTokens or clearTokens call.
WritePcs == {"hSet", "hClr", "lClr", "sSet", "sClr", "aSet"}

\* Network events and user events are macrotasks: on the web none of them is
\* delivered while a continuation of a synchronous localStorage call is pending.
MacrotaskReady ==
  storage # "web" \/ \A q \in Req : pc[q] \notin StoragePcs

\* tokenStorage: the keys the next completed write of request r's storage call
\* covers.  localStorage writes both keys in one turn; the first native variant
\* awaits the access-token write before it issues the refresh-token write; the
\* second issues both writes at once (Promise.all), which complete in any order.
NextWrites(r) ==
  CASE storage = "web"       -> {Keys}
    [] storage = "nativeSeq" -> IF "a" \in written[r] THEN {{"r"}} ELSE {{"a"}}
    [] storage = "nativeAll" -> {{k} : k \in Keys \ written[r]}

\* One write step of setTokens or clearTokens: v gives the value per key.
WriteStep(K, v) ==
  /\ accessTok' = IF "a" \in K THEN v["a"] ELSE accessTok
  /\ refreshTok' = IF "r" \in K THEN v["r"] ELSE refreshTok

\* A value JavaScript takes for true in a condition: a token, not null and
\* not undefined.
Truthy(tok) == tok \notin {NoToken, Undefined}

\* The token the handler of request r destructured from the refresh response
\* for key k: the token of the new pair, or undefined.
BodyToken(r, k) == IF k \in lacks[r] THEN Undefined ELSE newTok[r]

\* An access token kept under the refresh-token key: a string other than the
\* refresh token of its pair, numbered apart from the pairs.
AsRefreshToken(tok) == tok + MaxPair

\* Mutant of LoginRefreshToken: the refresh token is taken from the body as it
\* is.
LoginRefreshTokenAsGiven(r) == BodyToken(r, "r")

\* authService.login and register: the refresh token they store is the one of
\* the response body, or the access token when the body carries none
\* (refreshToken || token).
LoginRefreshToken(r) ==
  IF Truthy(BodyToken(r, "r")) THEN BodyToken(r, "r")
                               ELSE AsRefreshToken(BodyToken(r, "a"))

\* The pair login and register hand to setTokens.
LoginTokens(r) ==
  [k \in Keys |-> IF k = "a" THEN BodyToken(r, "a") ELSE LoginRefreshToken(r)]

\* The values request r's storage call writes: setTokens writes what the
\* response body gave under each key, clearTokens removes both keys.
WriteValue(r) ==
  [k \in Keys |-> CASE pc[r] \in {"hSet", "sSet"} -> BodyToken(r, k)
                    [] pc[r] = "aSet"             -> LoginTokens(r)[k]
                    [] OTHER                      -> NoToken]

\* The pc of a request whose apiClient promise settles: authService.logout goes
\* on to clearTokens, whatever the outcome of its POST; the catch block of
\* authService.refreshToken goes on to clearTokens when its POST is rejected
\* (its POST is never settled with a response here, see SvcRespond); any other
\* caller is done.
SettledPc(q) ==
  CASE kind[q] = "logout"  -> "lClr"
    [] kind[q] = "refresh" -> "sClr"
    [] OTHER               -> "done"

\* Errors the interceptor hands to the queue and to the triggering caller.
QueueError(w) ==
  CASE w = "noRT" -> "ENoRefreshToken"
    [] w = "fail" -> "ERefreshFailed"
    [] w = "err"  -> "ERefreshError"
    [] w = "storage" -> "EStorage"

SelfError(w) ==
  IF impl = "p19"
    THEN (IF w \in {"err", "storage"} THEN QueueError(w) ELSE "E401")
    ELSE QueueError(w)

\* The attempt (epoch) in progress, if any: attempts are numbered from 1.
Epoch == Len(attempts)

\* The number of pushes on the queue so far.
Pushes ==
  LET S == {qSeq[q] : q \in Req}
  IN CHOOSE m \in S : \A n \in S : n <= m

\* The attempt request r triggered: a request triggers at most one, since the
\* handler marks it _retry.
AttemptOf(r) == CHOOSE i \in 1..Len(attempts) : attempts[i].trigger = r

\* ------------------------------------------------------------------ Init
\* The state after the modules are loaded, with n requests to come, on one of
\* the given token store variants.  The store holds the pair of an earlier
\* login, or nothing.
ClientStart(n, variants) ==
  LET Req0 == 1..n IN
  /\ impl \in {"p19", "p20"}
  /\ storage \in variants
  /\ \E t \in {NoToken, 1} : accessTok = t /\ refreshTok = t
  /\ isRefreshing = FALSE
  /\ failedQueue = <<>>
  /\ kind = [q \in Req0 |-> "api"]
  /\ pc = [q \in Req0 |-> "new"]
  /\ retry = [q \in Req0 |-> FALSE]
  /\ hdr = [q \in Req0 |-> NoToken]
  /\ sends = [q \in Req0 |-> 0]
  /\ result = [q \in Req0 |-> "none"]
  /\ why = [q \in Req0 |-> "none"]
  /\ newTok = [q \in Req0 |-> NoToken]
  /\ lacks = [q \in Req0 |-> {}]
  /\ written = [q \in Req0 |-> {}]
  /\ issued = 1
  /\ faults = 0
  /\ attempts = <<>>
  /\ qEpoch = [q \in Req0 |-> 0]
  /\ qSeq = [q \in Req0 |-> 0]
  /\ rel = [q \in Req0 |-> [epoch |-> 0, how |-> "none"]]
  /\ replayLog = <<>>
  /\ resp = [q \in Req0 |-> "none"]

\* ---------------------------------------- AuthProvider and ProtectedRoute
NoUser == "null"               \* useState<User | null>(null)
NotGiven == "undefined"        \* a prop the parent does not pass
Emails == {"ana@pasos.app", "bo@pasos.app"}
ProtectedPaths == {"/dashboard", "/goals"}
RedirectProps == {NotGiven, "/welcome"}

\* isAuthenticated = useMemo(() => user !== null, [user]): computed in the
\* render that sees user, so it is a function of the state.
IsAuthenticated(u) == u # NoUser

\* Mutant of ProtectedRouteRender: the loading test is missing.
ProtectedRouteRenderEager(loading, authenticated, redirect, loc) ==
  IF authenticated
    THEN [what |-> "component", to |-> "", from |-> ""]
    ELSE [what |-> "redirect",
          to |-> IF redirect = NotGiven THEN "/login" ELSE redirect,
          from |-> loc]

\* What the render prop of ProtectedRoute returns: null while loading, the
\* component when authenticated, otherwise a Redirect to redirectTo (default
\* "/login") whose state carries the location.
ProtectedRouteRender(loading, authenticated, redirect, loc) ==
  IF loading
    THEN [what |-> "null", to |-> "", from |-> ""]
    ELSE IF authenticated
      THEN [what |-> "component", to |-> "", from |-> ""]
      ELSE [what |-> "redirect",
            to |-> IF redirect = NotGiven THEN "/login" ELSE redirect,
            from |-> loc]

\* The calls of login and register, numbered in the order they are made.
Calls == DOMAIN authCalls

\* The provider after mount with n calls to come, under a protected route
\* with one of the given redirectTo props, shown at one of the given paths.
ProviderStart(n, props, paths) ==
  /\ user = NoUser
  /\ isLoading = FALSE
  /\ authCalls = [c \in 1..n |->
                    [kind |-> "none", email |-> "none", pc |-> "new", epoch |-> 0]]
  /\ logouts = 0
  /\ setBy = 0
  /\ location \in paths
  /\ redirectTo \in props
  /\ rendered = ProtectedRouteRender(FALSE, FALSE, redirectTo, location)

\* ------------------------------------------------------- search modals
DEBOUNCE_DELAY == 3            \* 300 ms, in ticks of 100 ms
Queries == {"", "a", "ab"}     \* what the searchbar may hold

\* The length of a query (none of them has blanks around it, so trim()
\* changes none).
QueryLength(q) == CASE q = "" -> 0 [] q = "a" -> 1 [] q = "ab" -> 2

\* The test at the head of performSearch: the first AddFriendModal searches
\* every query that is not blank, the second one and InviteUserModal search
\* queries of two characters and more.
Searchable(k, q) ==
  IF k = "trim" THEN QueryLength(q) > 0 ELSE QueryLength(q) >= 2

\* The modal after mount, of one of the given kinds.
ModalStart(kinds) ==
  /\ modalKind \in kinds
  /\ modal = "closed"
  /\ searchQuery = ""
  /\ searching = FALSE
  /\ searchResults = ""
  /\ debounceTimerRef = 0
  /\ timers = {}
  /\ timerIds = 0
  /\ inflight = {}
  /\ searches = <<>>
  /\ sinceChange = DEBOUNCE_DELAY

\* ------------------------------------------------------------ useGoals
\* A goal is its id and the revision of its content; NullGoal stands for null.
Goal(i, v) == [id |-> i, rev |-> v]
NullGoal == Goal(0, 0)

\* The hook with n calls to come and a list of one of the given lengths, as
\* an earlier fetch left it: goals 1, 2, ... in their first revision.
GoalsStart(n, lengths) ==
  /\ \E len \in lengths :
       /\ goals = [i \in 1..len |-> Goal(i, 0)]
       /\ goalIds = len
  /\ goalsError = "null"
  /\ summary = 0
  /\ summaryLoading = FALSE
  /\ summaryCalls = 0
  /\ goalCalls = [c \in 1..n |->
                    [op |-> "none", goalId |-> 0, pc |-> "new",
                     answer |-> "none", ret |-> NullGoal]]

\* The components when nobody uses them.
PagesIdle ==
  /\ ProviderStart(0, {NotGiven}, {"/dashboard"})
  /\ ModalStart({"min2"})
  /\ GoalsStart(0, {0})

\* The API client when nobody uses it.
ClientIdle ==
  ClientStart(0, {"web"}) /\ impl = "p19" /\ accessTok = NoToken

Start(n, variants) == ClientStart(n, variants) /\ PagesIdle

Init == Start(NReq, {"web", "nativeSeq", "nativeAll"})

\* ----------------------------------------------------------- processQueue
\* processQueue(error, token) visits the queued records in order and empties
\* the queue.  With an error every record is rejected.  Without one every
\* record is resolved with the token: its callback sets the bearer header and
\* hands the request to the client again (part_019 resolves only a truthy
\* token and otherwise drops the record; part_020 resolves whatever it got).
\* The value is, per queued request, its new pc, header and result.
ProcessQueue(err, tok) ==
  [q \in Range(failedQueue) |->
     IF err # "none"
       THEN [pc |-> SettledPc(q), hdr |-> hdr[q], result |-> err, how |-> "rejected"]
       ELSE IF Truthy(tok) \/ impl = "p20"
         THEN [pc |-> "attach", hdr |-> tok, result |-> result[q], how |-> "replayed"]
         ELSE [pc |-> "queued", hdr |-> hdr[q], result |-> result[q], how |-> "dropped"]]

\* Mutant of ReplayOrder: the queue is released last in, first out.
ReplayOrderReversed ==
  [i \in 1..Len(failedQueue) |-> failedQueue[Len(failedQueue) + 1 - i]]

\* The order in which forEach releases the queued records.
ReplayOrder == failedQueue

\* Mutant of SuccessSteps: the flag is cleared as soon as setTokens returned.
SuccessStepsFlagFirst ==
  <<"stored", "flagCleared", "released", "queuedResent", "resubmitted">>

\* What the handler does, in this order, in the turn in which its await of
\* setTokens returns ("stored"): processQueue resolves the queued records
\* ("released"), the triggering request is handed to the client again
\* ("resubmitted"), the finally block clears the flag ("flagCleared").  The
\* queued requests are handed to the client again ("queuedResent") inside
\* processQueue by the resolve callbacks of part_019, and by the promise
\* reactions of part_020, which run when the handler has returned.
SuccessSteps ==
  IF impl = "p19"
    THEN <<"stored", "released", "queuedResent", "resubmitted", "flagCleared">>
    ELSE <<"stored", "released", "resubmitted", "flagCleared", "queuedResent">>

\* Step a comes before step b in the sequence s.
Before(s, a, b) ==
  \E i, j \in 1..Len(s) : i < j /\ s[i] = a /\ s[j] = b

\* The replays one successful attempt issues, in the order of the calls of the
\* client: part_019 resolves the queue and then resubmits the triggering
\* request; part_020 resubmits the triggering request and the queued requests
\* follow in the promise reactions of processQueue.
IssuedReplays(r) ==
  LET qs == [i \in 1..Len(ReplayOrder) |->
                [req |-> ReplayOrder[i], epoch |-> AttemptOf(r),
                 seq |-> qSeq[ReplayOrder[i]]]]
      me == <<[req |-> r, epoch |-> AttemptOf(r), seq |-> 0]>>
  IN IF Before(SuccessSteps, "queuedResent", "resubmitted")
       THEN qs \o me ELSE me \o qs

\* Per-request variables after processQueue, with request r's own new value.
Merge(f, r, mine, P, field) ==
  [q \in Req |-> IF q = r THEN mine
                 ELSE IF q \in DOMAIN P THEN P[q][field] ELSE f[q]]

MergeRel(r, P) ==
  [q \in Req |-> IF q \in DOMAIN P
                   THEN [epoch |-> AttemptOf(r), how |-> P[q].how] ELSE rel[q]]

\* ------------------------------------------------------- sending requests
\* A caller hands a request to the client (apiClient.get/post/put/delete, or
\* the POST /auth/logout of authService.logout).  Requests are numbered in the
\* order they are submitted.
SubmitKinds ==
  IF Cardinality({q \in Req : kind[q] = "logout"}) < MaxLogout
    THEN {"api", "logout"} ELSE {"api"}

Submit(r, k) ==
  /\ pc[r] = "new"
  /\ \A p \in Req : p < r => pc[p] # "new"
  /\ MacrotaskReady
  /\ kind' = [kind EXCEPT ![r] = k]
  /\ pc' = [pc EXCEPT ![r] = IF k = "refresh" THEN "sGetRT" ELSE "attach"]
  /\ UNCHANGED <<cfgVars, pageVars,
                 faults, storeVars, isRefreshing, failedQueue, retry,
                 hdr, sends, result, why, newTok, lacks, written, issued,
                 histVars>>

\* Request interceptor, after its await of getToken: a stored token becomes the
\* bearer header, no token leaves the header as it is; the request goes out.
RequestInterceptor(r) ==
  /\ pc[r] = "attach"
  /\ hdr' = [hdr EXCEPT ![r] = IF accessTok # NoToken THEN accessTok ELSE hdr[r]]
  /\ sends' = [sends EXCEPT ![r] = sends[r] + 1]
  /\ pc' = [pc EXCEPT ![r] = "sent"]
  /\ UNCHANGED <<cfgVars, pageVars,
                 faults, storeVars, isRefreshing, failedQueue, kind,
                 retry, result, why, newTok, lacks, written, issued, attempts,
                 qEpoch, qSeq, rel, replayLog, resp>>

\* Response interceptor, success handler: the response is the caller's.
Respond200(r) ==
  /\ pc[r] = "sent"
  /\ kind[r] \in {"api", "logout"}
  /\ MacrotaskReady
  /\ pc' = [pc EXCEPT ![r] = SettledPc(r)]
  /\ result' = [result EXCEPT ![r] = "ok"]
  /\ resp' = [resp EXCEPT ![r] = "200"]
  /\ UNCHANGED <<cfgVars, pageVars,
                 faults, storeVars, isRefreshing, failedQueue, kind,
                 retry, hdr, sends, why, newTok, lacks, written, issued,
                 attempts, qEpoch, qSeq, rel, replayLog>>

\* The condition of the refresh branch: a 401 of a request not marked _retry.
EntersRefreshBranch(r) == ~retry[r]

\* A 401 of a request already marked _retry is rejected to the caller.
Respond401Retried(r) ==
  /\ pc[r] = "sent"
  /\ MacrotaskReady
  /\ ~EntersRefreshBranch(r)
  /\ pc' = [pc EXCEPT ![r] = SettledPc(r)]
  /\ result' = [result EXCEPT ![r] = "E401"]
  /\ resp' = [resp EXCEPT ![r] = "401"]
  /\ UNCHANGED <<cfgVars, pageVars,
                 faults, storeVars, isRefreshing, failedQueue, kind,
                 retry, hdr, sends, why, newTok, lacks, written, issued,
                 attempts, qEpoch, qSeq, rel, replayLog>>

\* Mutant of MustQueue: the handler does not test the flag.
MustQueueNever == FALSE

\* The flag test of the refresh branch: a refresh is under way.
MustQueue == isRefreshing

\* The refresh branch while a refresh is under way: the request is pushed on
\* the queue and its promise stays pending.
Enqueue(r) ==
  /\ failedQueue' = Append(failedQueue, r)
  /\ pc' = [pc EXCEPT ![r] = "queued"]
  /\ qEpoch' = [qEpoch EXCEPT ![r] = Epoch]
  /\ qSeq' = [qSeq EXCEPT ![r] = Pushes + 1]
  /\ UNCHANGED <<cfgVars, pageVars,
                 faults, storeVars, isRefreshing, kind, retry, hdr,
                 sends, result, why, newTok, lacks, written, issued, attempts,
                 rel, replayLog>>

\* A 401 while a refresh is under way.
Respond401Queue(r) ==
  /\ pc[r] = "sent"
  /\ MacrotaskReady
  /\ EntersRefreshBranch(r)
  /\ MustQueue
  /\ resp' = [resp EXCEPT ![r] = "401"]
  /\ Enqueue(r)

\* The refresh branch while no refresh is under way: the request is marked
\* _retry, the flag is set, and the handler awaits getRefreshToken.
StartRefresh(r) ==
  /\ retry' = [retry EXCEPT ![r] = TRUE]
  /\ isRefreshing' = TRUE
  /\ pc' = [pc EXCEPT ![r] = "getRT"]
  /\ attempts' = Append(attempts, [trigger |-> r, nth |-> sends[r],
                                   called |-> FALSE, calls |-> 0,
                                   outcome |-> "pending",
                                   tok |-> NoToken, ended |-> FALSE,
                                   threw |-> FALSE, steps |-> <<>>])
  /\ UNCHANGED <<cfgVars, pageVars,
                 faults, storeVars, failedQueue, kind, hdr, sends,
                 result, why, newTok, lacks, written, issued, qEpoch, qSeq,
                 rel, replayLog>>

\* A 401 while no refresh is under way.
Respond401StartRefresh(r) ==
  /\ pc[r] = "sent"
  /\ MacrotaskReady
  /\ EntersRefreshBranch(r)
  /\ ~MustQueue
  /\ resp' = [resp EXCEPT ![r] = "401"]
  /\ StartRefresh(r)

\* Failures of a request other than a 401: no response at all (network
\* unreachable, timeout), or a response with another status (403, 404, 500).
TransportErrors == {"ENetwork", "EStatus"}

\* Mutant of IsUnauthorized: the handler takes every failure for a 401.
IsUnauthorizedAlways(e) == TRUE

\* The status test of the response interceptor: error.response?.status === 401.
IsUnauthorized(e) == e = "E401"

\* The error is rejected to the caller as it came.
Reject(r, e) ==
  /\ pc' = [pc EXCEPT ![r] = SettledPc(r)]
  /\ result' = [result EXCEPT ![r] = e]
  /\ UNCHANGED <<cfgVars, pageVars,
                 faults, storeVars, isRefreshing, failedQueue, kind,
                 retry, hdr, sends, why, newTok, lacks, written, issued,
                 attempts, qEpoch, qSeq, rel, replayLog>>

\* Response interceptor, error handler, for a failure other than a 401: the
\* status test fails and the error is rejected.
RespondError(r) ==
  /\ pc[r] = "sent"
  /\ MacrotaskReady
  /\ \E e \in TransportErrors :
       /\ resp' = [resp EXCEPT ![r] = e]
       /\ IF IsUnauthorized(e) /\ EntersRefreshBranch(r)
            THEN IF MustQueue THEN Enqueue(r) ELSE StartRefresh(r)
            ELSE Reject(r, e)

\* ------------------------------------------------------ the refresh handler
\* The test of the stored refresh token: the refresh endpoint is called only
\* with a refresh token.
HasRefreshToken(rt) == rt # NoToken

\* getRefreshToken answered null.  part_019 awaits clearTokens and then
\* rejects the queue; part_020 throws into its catch block, which rejects the
\* queue first and then awaits clearTokens.
NoRefreshToken(r) ==
  /\ pc[r] = "getRT"
  /\ ~HasRefreshToken(refreshTok)
  /\ LET P == IF impl = "p20" THEN ProcessQueue(QueueError("noRT"), NoToken)
                              ELSE << >>
     IN /\ pc' = Merge(pc, r, "hClr", P, "pc")
        /\ result' = Merge(result, r, result[r], P, "result")
        /\ rel' = MergeRel(r, P)
        /\ failedQueue' = IF impl = "p20" THEN <<>> ELSE failedQueue
  /\ why' = [why EXCEPT ![r] = "noRT"]
  /\ attempts' = [attempts EXCEPT ![AttemptOf(r)].outcome = "noRT"]
  /\ UNCHANGED <<cfgVars, pageVars,
                 faults, storeVars, isRefreshing, kind, retry, hdr,
                 sends, newTok, lacks, written, issued, qEpoch, qSeq,
                 replayLog, resp>>

\* getRefreshToken answered a token: POST /auth/refresh goes out (plain axios,
\* not the intercepted instance).
CallRefresh(r) ==
  /\ pc[r] = "getRT"
  /\ HasRefreshToken(refreshTok)
  /\ pc' = [pc EXCEPT ![r] = "refreshing"]
  /\ attempts' = [attempts EXCEPT ![AttemptOf(r)].called = TRUE,
                                  ![AttemptOf(r)].calls = @ + 1]
  /\ UNCHANGED <<cfgVars, pageVars,
                 faults, storeVars, isRefreshing, failedQueue, kind,
                 retry, hdr, sends, result, why, newTok, lacks, written,
                 issued, qEpoch, qSeq, rel, replayLog, resp>>

\* The refresh endpoint answers with a new token pair: the handler awaits
\* setTokens.
RefreshOk(r) ==
  /\ pc[r] = "refreshing"
  /\ MacrotaskReady
  /\ issued < MaxPair
  /\ issued' = issued + 1
  /\ newTok' = [newTok EXCEPT ![r] = issued + 1]
  /\ lacks' = [lacks EXCEPT ![r] = {}]
  /\ pc' = [pc EXCEPT ![r] = "hSet"]
  /\ attempts' = [attempts EXCEPT ![AttemptOf(r)].outcome = "ok",
                                  ![AttemptOf(r)].tok = issued + 1]
  /\ UNCHANGED <<cfgVars, pageVars,
                 faults, storeVars, isRefreshing, failedQueue, kind,
                 retry, hdr, sends, result, why, written, qEpoch, qSeq, rel,
                 replayLog, resp>>

\* The refresh endpoint answers 2xx with a body (for part_019 one with success
\* set and a data object) that lacks the access token, the refresh token or
\* both: the handler destructures undefined and goes on to await setTokens.
RefreshMalformed(r) ==
  /\ pc[r] = "refreshing"
  /\ MacrotaskReady
  /\ \E L \in (SUBSET Keys) \ {{}} :
       LET n == IF L = Keys THEN issued ELSE issued + 1 IN
       /\ n <= MaxPair
       /\ issued' = n
       /\ newTok' = [newTok EXCEPT ![r] = n]
       /\ lacks' = [lacks EXCEPT ![r] = L]
       /\ attempts' = [attempts EXCEPT
                         ![AttemptOf(r)].outcome = "malformed",
                         ![AttemptOf(r)].tok = IF "a" \in L THEN Undefined ELSE n]
  /\ pc' = [pc EXCEPT ![r] = "hSet"]
  /\ UNCHANGED <<cfgVars, pageVars,
                 faults, storeVars, isRefreshing, failedQueue, kind,
                 retry, hdr, sends, result, why, written, qEpoch, qSeq, rel,
                 replayLog, resp>>

\* The ways a refresh call fails: rejected (non-2xx, network), or, for the
\* backend of part_019, answered with success = false.
RefreshFailures == IF impl = "p19" THEN {"fail", "err"} ELSE {"err"}

\* Mutant of AfterRefreshFailure: the handler calls the refresh endpoint again.
AfterRefreshFailureRetry == "getRT"

\* Where the handler goes when its refresh call has failed: to clearTokens.
\* The call was made with plain axios, not with the intercepted instance, so
\* its failure reaches no interceptor.
AfterRefreshFailure == "hClr"

\* The refresh call failed.  part_019 awaits clearTokens and then rejects the
\* queue; part_020 rejects the queue first and then awaits clearTokens.
RefreshFailed(r) ==
  /\ pc[r] = "refreshing"
  /\ MacrotaskReady
  /\ \E w \in RefreshFailures :
       /\ why' = [why EXCEPT ![r] = w]
       /\ attempts' = [attempts EXCEPT ![AttemptOf(r)].outcome = w]
       /\ LET P == IF impl = "p20" THEN ProcessQueue(QueueError(w), NoToken)
                                   ELSE << >>
          IN /\ pc' = Merge(pc, r, AfterRefreshFailure, P, "pc")
             /\ result' = Merge(result, r, result[r], P, "result")
             /\ rel' = MergeRel(r, P)
             /\ failedQueue' = IF impl = "p20" THEN <<>> ELSE failedQueue
  /\ UNCHANGED <<cfgVars, pageVars,
                 faults, storeVars, isRefreshing, kind, retry, hdr,
                 sends, newTok, lacks, written, issued, qEpoch, qSeq,
                 replayLog, resp>>

\* A native write of a storage call completes and the call is not over yet.
StoreWrite(r) ==
  /\ pc[r] \in WritePcs
  /\ \E K \in NextWrites(r) :
       /\ written[r] \cup K # Keys
       /\ WriteStep(K, WriteValue(r))
       /\ written' = [written EXCEPT ![r] = written[r] \cup K]
  /\ UNCHANGED <<cfgVars, pageVars,
                 faults, isRefreshing, failedQueue, kind, pc, retry,
                 hdr, sends, result, why, newTok, lacks, issued, histVars>>

\* The last write of request r's storage call completes: the await returns.
LastWrite(r) ==
  /\ \E K \in NextWrites(r) :
       /\ written[r] \cup K = Keys
       /\ WriteStep(K, WriteValue(r))
  /\ written' = [written EXCEPT ![r] = {}]

\* Mutant of RetryHeader: the handler leaves the header of the triggering
\* request as it was.
RetryHeaderStale(r) == hdr[r]

\* The bearer header the handler gives the triggering request for its replay.
RetryHeader(r) == BodyToken(r, "a")

\* Mutant of FlagAfterAttempt: the early return of the missing-refresh-token
\* branch skips the reset of the flag.
FlagKeptOnMissingToken(w) == w = "noRT"

\* The finally block of the handler: the flag is reset on every exit path w.
FlagAfterAttempt(w) == FALSE

\* setTokens returned: the header is updated, the queue is resolved with the
\* new token, the triggering request is resubmitted, the flag is cleared.
RefreshSucceeded(r) ==
  /\ pc[r] = "hSet"
  /\ LastWrite(r)
  /\ LET P == ProcessQueue("none", BodyToken(r, "a"))
     IN /\ pc' = Merge(pc, r, "attach", P, "pc")
        /\ hdr' = Merge(hdr, r, RetryHeader(r), P, "hdr")
        /\ result' = Merge(result, r, result[r], P, "result")
        /\ rel' = MergeRel(r, P)
  /\ replayLog' = replayLog \o IssuedReplays(r)
  /\ failedQueue' = <<>>
  /\ isRefreshing' = FlagAfterAttempt("ok")
  /\ attempts' = [attempts EXCEPT ![AttemptOf(r)].ended = TRUE,
                                  ![AttemptOf(r)].steps = SuccessSteps]
  /\ UNCHANGED <<cfgVars, pageVars,
                 faults, kind, retry, sends, why, newTok, lacks,
                 issued, qEpoch, qSeq, resp>>

\* clearTokens returned on a failure path: part_019 now rejects the queue; the
\* triggering request is rejected and the flag is cleared.
RefreshAborted(r) ==
  /\ pc[r] = "hClr"
  /\ LastWrite(r)
  /\ LET P == IF impl = "p19" THEN ProcessQueue(QueueError(why[r]), NoToken)
                              ELSE << >>
     IN /\ pc' = Merge(pc, r, SettledPc(r), P, "pc")
        /\ result' = Merge(result, r, SelfError(why[r]), P, "result")
        /\ rel' = MergeRel(r, P)
        /\ failedQueue' = IF impl = "p19" THEN <<>> ELSE failedQueue
  /\ isRefreshing' = FlagAfterAttempt(why[r])
  /\ attempts' = [attempts EXCEPT ![AttemptOf(r)].ended = TRUE]
  /\ UNCHANGED <<cfgVars, pageVars,
                 faults, kind, retry, hdr, sends, why, newTok, lacks,
                 issued, qEpoch, qSeq, replayLog, resp>>

\* authService.logout: clearTokens returned, logout is complete.
LogoutDone(r) ==
  /\ pc[r] = "lClr"
  /\ LastWrite(r)
  /\ pc' = [pc EXCEPT ![r] = "done"]
  /\ UNCHANGED <<cfgVars, pageVars,
                 faults, isRefreshing, failedQueue, kind, retry, hdr,
                 sends, result, why, newTok, lacks, issued, histVars>>

\* ------------------------------------------------ authService.refreshToken
\* authService.refreshToken, after its await of getRefreshToken: without a
\* refresh token it returns false.
SvcNoRefreshToken(r) ==
  /\ pc[r] = "sGetRT"
  /\ ~HasRefreshToken(refreshTok)
  /\ pc' = [pc EXCEPT ![r] = "done"]
  /\ result' = [result EXCEPT ![r] = "false"]
  /\ UNCHANGED <<cfgVars, pageVars,
                 faults, storeVars, isRefreshing, failedQueue, kind,
                 retry, hdr, sends, why, newTok, lacks, written, issued,
                 histVars>>

\* With a refresh token it posts it to /auth/refresh through the API client.
SvcCallRefresh(r) ==
  /\ pc[r] = "sGetRT"
  /\ HasRefreshToken(refreshTok)
  /\ pc' = [pc EXCEPT ![r] = "attach"]
  /\ UNCHANGED <<cfgVars, pageVars,
                 faults, storeVars, isRefreshing, failedQueue, kind,
                 retry, hdr, sends, result, why, newTok, lacks, written, issued,
                 histVars>>

\* The answers of the refresh endpoint to authService.refreshToken that reach
\* it as a response: success with a new pair, or success = false.
SvcAnswers == {"ok", "EUnsuccessful"}

\* Its POST is answered 2xx: with success set it awaits setTokens with the
\* pair of the response, otherwise it awaits clearTokens.
SvcRespond(r) ==
  /\ pc[r] = "sent"
  /\ kind[r] = "refresh"
  /\ MacrotaskReady
  /\ resp' = [resp EXCEPT ![r] = "200"]
  /\ \E a \in SvcAnswers :
       /\ result' = [result EXCEPT ![r] = a]
       /\ IF a = "ok"
            THEN /\ issued < MaxPair
                 /\ issued' = issued + 1
                 /\ newTok' = [newTok EXCEPT ![r] = issued + 1]
                 /\ lacks' = [lacks EXCEPT ![r] = {}]
                 /\ pc' = [pc EXCEPT ![r] = "sSet"]
            ELSE /\ pc' = [pc EXCEPT ![r] = "sClr"]
                 /\ UNCHANGED <<issued, newTok, lacks>>
  /\ UNCHANGED <<cfgVars, pageVars,
                 faults, storeVars, isRefreshing, failedQueue, kind,
                 retry, hdr, sends, why, written, attempts, qEpoch, qSeq, rel,
                 replayLog>>

\* What authService.refreshToken returns when its storage call has returned:
\* true after setTokens, false after clearTokens.
SvcReturns(p) == IF p = "sSet" THEN "true" ELSE "false"

\* Its setTokens or clearTokens call returned: it returns.
SvcDone(r) ==
  /\ pc[r] \in {"sSet", "sClr"}
  /\ LastWrite(r)
  /\ pc' = [pc EXCEPT ![r] = "done"]
  /\ result' = [result EXCEPT ![r] = SvcReturns(pc[r])]
  /\ UNCHANGED <<cfgVars, pageVars,
                 faults, isRefreshing, failedQueue, kind, retry, hdr,
                 sends, why, newTok, lacks, issued, histVars>>

\* ------------------------------------------- authService.login / register
\* Both post the credentials through the API client and have the same shape.
LoginKinds == {"login", "register"}

\* The error each of them throws when the response reports no success.
LoginError(k) == IF k = "login" THEN "ELoginFailed" ELSE "ERegistrationFailed"

\* The bodies of a 2xx answer of /auth/login and /auth/register: success with
\* a token and a refresh token, success with a token only, or success = false.
LoginAnswers == {"ok", "okNoRefresh", "EUnsuccessful"}

\* Their POST is answered 2xx: with success set they await setTokens with the
\* token of the response and its refresh token (or the token again), otherwise
\* they throw.
LoginRespond(r) ==
  /\ pc[r] = "sent"
  /\ kind[r] \in LoginKinds
  /\ MacrotaskReady
  /\ resp' = [resp EXCEPT ![r] = "200"]
  /\ \E a \in LoginAnswers :
       IF a = "EUnsuccessful"
         THEN /\ pc' = [pc EXCEPT ![r] = "done"]
              /\ result' = [result EXCEPT ![r] = LoginError(kind[r])]
              /\ UNCHANGED <<issued, newTok, lacks>>
         ELSE /\ issued < MaxPair
              /\ issued' = issued + 1
              /\ newTok' = [newTok EXCEPT ![r] = issued + 1]
              /\ lacks' = [lacks EXCEPT ![r] = IF a = "ok" THEN {} ELSE {"r"}]
              /\ pc' = [pc EXCEPT ![r] = "aSet"]
              /\ UNCHANGED result
  /\ UNCHANGED <<cfgVars, pageVars,
                 faults, storeVars, isRefreshing, failedQueue, kind,
                 retry, hdr, sends, why, written, attempts, qEpoch, qSeq, rel,
                 replayLog>>

\* Their setTokens call returned: they return the user.
LoginDone(r) ==
  /\ pc[r] = "aSet"
  /\ LastWrite(r)
  /\ pc' = [pc EXCEPT ![r] = "done"]
  /\ result' = [result EXCEPT ![r] = "user"]
  /\ UNCHANGED <<cfgVars, pageVars,
                 faults, isRefreshing, failedQueue, kind, retry, hdr,
                 sends, why, newTok, lacks, issued, histVars>>

\* -------------------------------------------------- token store exceptions
\* A token store call may throw (Preferences rejects, localStorage throws).
\* The writes of the failing call that took effect before the exception
\* surfaces: localStorage throws at the first or at the second setItem; the
\* awaited native write that rejects wrote nothing; of two native writes
\* issued together the other one may have completed.
ThrowWrites(r) ==
  IF pc[r] \notin WritePcs THEN {{}}
  ELSE CASE storage = "web"       -> {{}, {"a"}}
         [] storage = "nativeSeq" -> {{}}
         [] storage = "nativeAll" ->
              {K \in SUBSET (Keys \ written[r]) : K # Keys \ written[r]}

\* The handler is in its catch block (part_019 awaits clearTokens in the try
\* block too, on the missing-token and success-false branches).
InCatch(r) ==
  pc[r] = "hClr" /\ (impl = "p20" \/ why[r] \in {"err", "storage"})

\* getToken throws in the request interceptor: the request is not sent and the
\* error passes through the response interceptor to the caller.
InterceptorThrows(r) ==
  /\ pc[r] = "attach"
  /\ faults < MaxFaults
  /\ faults' = faults + 1
  /\ pc' = [pc EXCEPT ![r] = SettledPc(r)]
  /\ result' = [result EXCEPT ![r] = "EStorage"]
  /\ UNCHANGED <<cfgVars, pageVars,
                 storeVars, isRefreshing, failedQueue, kind, retry,
                 hdr, sends, why, newTok, lacks, written, issued, histVars>>

\* A token store call throws in the try block of the handler: control passes
\* to the catch block, which handles it like a failed refresh.
HandlerThrowsInTry(r) ==
  /\ pc[r] \in {"getRT", "hSet", "hClr"}
  /\ ~InCatch(r)
  /\ faults < MaxFaults
  /\ faults' = faults + 1
  /\ \E K \in ThrowWrites(r) : WriteStep(K, WriteValue(r))
  /\ written' = [written EXCEPT ![r] = {}]
  /\ why' = [why EXCEPT ![r] = "storage"]
  /\ attempts' = [attempts EXCEPT ![AttemptOf(r)].outcome = "storage"]
  /\ LET P == IF impl = "p20" THEN ProcessQueue(QueueError("storage"), NoToken)
                              ELSE << >>
     IN /\ pc' = Merge(pc, r, "hClr", P, "pc")
        /\ result' = Merge(result, r, result[r], P, "result")
        /\ rel' = MergeRel(r, P)
        /\ failedQueue' = IF impl = "p20" THEN <<>> ELSE failedQueue
  /\ UNCHANGED <<cfgVars, pageVars,
                 isRefreshing, kind, retry, hdr, sends, newTok, lacks,
                 issued, qEpoch, qSeq, replayLog, resp>>

\* clearTokens throws in the catch block: the exception leaves the handler
\* through the finally block; the queue is not processed any more.
HandlerThrowsInCatch(r) ==
  /\ InCatch(r)
  /\ faults < MaxFaults
  /\ faults' = faults + 1
  /\ \E K \in ThrowWrites(r) : WriteStep(K, WriteValue(r))
  /\ written' = [written EXCEPT ![r] = {}]
  /\ pc' = [pc EXCEPT ![r] = SettledPc(r)]
  /\ result' = [result EXCEPT ![r] = "EStorage"]
  /\ isRefreshing' = FlagAfterAttempt("storage")
  /\ attempts' = [attempts EXCEPT ![AttemptOf(r)].ended = TRUE,
                                  ![AttemptOf(r)].threw = TRUE]
  /\ UNCHANGED <<cfgVars, pageVars,
                 failedQueue, kind, retry, hdr, sends, why, newTok,
                 lacks, issued, qEpoch, qSeq, rel, replayLog, resp>>

\* ------------------------------------------------------------------- Next
Next ==
  \/ \E r \in Req : \E k \in SubmitKinds : Submit(r, k)
  \/ \E r \in Req : RequestInterceptor(r)
  \/ \E r \in Req : Respond200(r)
  \/ \E r \in Req : Respond401Retried(r)
  \/ \E r \in Req : Respond401Queue(r)
  \/ \E r \in Req : Respond401StartRefresh(r)
  \/ \E r \in Req : NoRefreshToken(r)
  \/ \E r \in Req : CallRefresh(r)
  \/ \E r \in Req : RefreshOk(r)
  \/ \E r \in Req : RefreshFailed(r)
  \/ \E r \in Req : StoreWrite(r)
  \/ \E r \in Req : RefreshSucceeded(r)
  \/ \E r \in Req : RefreshAborted(r)
  \/ \E r \in Req : LogoutDone(r)

Spec == Init /\ [][Next]_vars

\* A wave of requests on the web: one more request than Spec, all of them API
\* calls, on localStorage (whose calls complete in the turn that makes them).
InitWave == Start(NWave, {"web"})

NextWave ==
  \/ \E r \in Req : Submit(r, "api")
  \/ \E r \in Req : RequestInterceptor(r)
  \/ \E r \in Req : Respond200(r)
  \/ \E r \in Req : Respond401Retried(r)
  \/ \E r \in Req : Respond401Queue(r)
  \/ \E r \in Req : Respond401StartRefresh(r)
  \/ \E r \in Req : NoRefreshToken(r)
  \/ \E r \in Req : CallRefresh(r)
  \/ \E r \in Req : RefreshOk(r)
  \/ \E r \in Req : RefreshFailed(r)
  \/ \E r \in Req : RefreshSucceeded(r)
  \/ \E r \in Req : RefreshAborted(r)

SpecWave == InitWave /\ [][NextWave]_vars

\* The API client under token store exceptions: API calls on every token store
\* variant, with up to MaxFaults storage calls that throw.
NextFault ==
  \/ \E r \in Req : Submit(r, "api")
  \/ \E r \in Req : RequestInterceptor(r)
  \/ \E r \in Req : Respond200(r)
  \/ \E r \in Req : Respond401Retried(r)
  \/ \E r \in Req : Respond401Queue(r)
  \/ \E r \in Req : Respond401StartRefresh(r)
  \/ \E r \in Req : NoRefreshToken(r)
  \/ \E r \in Req : CallRefresh(r)
  \/ \E r \in Req : RefreshOk(r)
  \/ \E r \in Req : RefreshFailed(r)
  \/ \E r \in Req : StoreWrite(r)
  \/ \E r \in Req : RefreshSucceeded(r)
  \/ \E r \in Req : RefreshAborted(r)
  \/ \E r \in Req : InterceptorThrows(r)
  \/ \E r \in Req : HandlerThrowsInTry(r)
  \/ \E r \in Req : HandlerThrowsInCatch(r)

SpecFault == Init /\ [][NextFault]_vars

\* The API client on an unreliable network: API calls on every token store
\* variant, whose requests may also fail without a 401.
NextNet ==
  \/ \E r \in Req : Submit(r, "api")
  \/ \E r \in Req : RequestInterceptor(r)
  \/ \E r \in Req : Respond200(r)
  \/ \E r \in Req : RespondError(r)
  \/ \E r \in Req : Respond401Retried(r)
  \/ \E r \in Req : Respond401Queue(r)
  \/ \E r \in Req : Respond401StartRefresh(r)
  \/ \E r \in Req : NoRefreshToken(r)
  \/ \E r \in Req : CallRefresh(r)
  \/ \E r \in Req : RefreshOk(r)
  \/ \E r \in Req : RefreshFailed(r)
  \/ \E r \in Req : StoreWrite(r)
  \/ \E r \in Req : RefreshSucceeded(r)
  \/ \E r \in Req : RefreshAborted(r)

SpecNet == Init /\ [][NextNet]_vars

\* The API client on the web against a backend whose refresh endpoint may
\* answer with an incomplete body.  (What Preferences.set does with an
\* undefined value is not part of this repository: localStorage stores the
\* string "undefined".)
InitBody == Start(NReq, {"web"})

NextBody ==
  \/ \E r \in Req : Submit(r, "api")
  \/ \E r \in Req : RequestInterceptor(r)
  \/ \E r \in Req : Respond200(r)
  \/ \E r \in Req : Respond401Retried(r)
  \/ \E r \in Req : Respond401Queue(r)
  \/ \E r \in Req : Respond401StartRefresh(r)
  \/ \E r \in Req : NoRefreshToken(r)
  \/ \E r \in Req : CallRefresh(r)
  \/ \E r \in Req : RefreshOk(r)
  \/ \E r \in Req : RefreshMalformed(r)
  \/ \E r \in Req : RefreshFailed(r)
  \/ \E r \in Req : RefreshSucceeded(r)
  \/ \E r \in Req : RefreshAborted(r)

SpecBody == InitBody /\ [][NextBody]_vars

\* The API client together with authService.refreshToken: API calls and up to
\* MaxService calls of refreshToken, on every token store variant.
ServiceKinds ==
  IF Cardinality({q \in Req : kind[q] # "api"}) < MaxService
    THEN {"api", "refresh"} ELSE {"api"}

NextAuth ==
  \/ \E r \in Req : \E k \in ServiceKinds : Submit(r, k)
  \/ \E r \in Req : RequestInterceptor(r)
  \/ \E r \in Req : Respond200(r)
  \/ \E r \in Req : Respond401Retried(r)
  \/ \E r \in Req : Respond401Queue(r)
  \/ \E r \in Req : Respond401StartRefresh(r)
  \/ \E r \in Req : NoRefreshToken(r)
  \/ \E r \in Req : CallRefresh(r)
  \/ \E r \in Req : RefreshOk(r)
  \/ \E r \in Req : RefreshFailed(r)
  \/ \E r \in Req : StoreWrite(r)
  \/ \E r \in Req : RefreshSucceeded(r)
  \/ \E r \in Req : RefreshAborted(r)
  \/ \E r \in Req : SvcNoRefreshToken(r)
  \/ \E r \in Req : SvcCallRefresh(r)
  \/ \E r \in Req : SvcRespond(r)
  \/ \E r \in Req : SvcDone(r)

SpecAuth == Init /\ [][NextAuth]_vars

\* The API client together with authService.login and register: API calls
\* and up to MaxLogin calls of login or register, on every token store variant.
\* (The sequential native token store is left out: the order of its writes
\* is one of the orders of the native store that issues both at once.)
InitLogin == Start(NReq, {"web", "nativeAll"})

AuthKinds ==
  IF Cardinality({q \in Req : kind[q] # "api"}) < MaxLogin
    THEN {"api"} \cup LoginKinds ELSE {"api"}

NextLogin ==
  \/ \E r \in Req : \E k \in AuthKinds : Submit(r, k)
  \/ \E r \in Req : RequestInterceptor(r)
  \/ \E r \in Req : Respond200(r)
  \/ \E r \in Req : Respond401Retried(r)
  \/ \E r \in Req : Respond401Queue(r)
  \/ \E r \in Req : Respond401StartRefresh(r)
  \/ \E r \in Req : NoRefreshToken(r)
  \/ \E r \in Req : CallRefresh(r)
  \/ \E r \in Req : RefreshOk(r)
  \/ \E r \in Req : RefreshFailed(r)
  \/ \E r \in Req : StoreWrite(r)
  \/ \E r \in Req : RefreshSucceeded(r)
  \/ \E r \in Req : RefreshAborted(r)
  \/ \E r \in Req : LoginRespond(r)
  \/ \E r \in Req : LoginDone(r)

SpecLogin == InitLogin /\ [][NextLogin]_vars

\* ------------------------------------------------------------ AuthProvider
\* Every state change re-renders the provider and with it the ProtectedRoute
\* below it.
Rerender ==
  rendered' = ProtectedRouteRender(isLoading', IsAuthenticated(user'),
                                   redirectTo, location')

\* The two setState calls after the await run in one turn: no other event is
\* delivered between them.
ProviderReady == \A c \in Calls : authCalls[c].pc # "finally"

\* login(email, password) / register(email, password, name) up to their await:
\* setIsLoading(true), and a 500 ms timer stands in for the API call.
ProviderCall(c, k, e) ==
  /\ authCalls[c].pc = "new"
  /\ \A d \in Calls : d < c => authCalls[d].pc # "new"
  /\ ProviderReady
  /\ authCalls' = [authCalls EXCEPT ![c] = [kind |-> k, email |-> e,
                                            pc |-> "pending", epoch |-> logouts]]
  /\ isLoading' = TRUE
  /\ UNCHANGED <<clientVars, modalVars, goalVars,
                 user, logouts, setBy, location, redirectTo>>
  /\ Rerender

\* The timers have the same delay, so they fire in the order they were set.
TimerFires(c) ==
  /\ authCalls[c].pc = "pending"
  /\ \A d \in Calls : d < c => authCalls[d].pc # "pending"
  /\ ProviderReady

\* The timer of call c fires: setUser and, in the finally block,
\* setIsLoading(false), rendered together (batched state updates).
ProviderSettle(c) ==
  /\ TimerFires(c)
  /\ authCalls' = [authCalls EXCEPT ![c].pc = "settled"]
  /\ user' = authCalls[c].email
  /\ setBy' = c
  /\ isLoading' = FALSE
  /\ UNCHANGED <<clientVars, modalVars, goalVars,
                 logouts, location, redirectTo>>
  /\ Rerender

\* The same without batching (state updates outside an event handler before
\* React 18): setUser is rendered on its own first ...
ProviderSetUser(c) ==
  /\ TimerFires(c)
  /\ authCalls' = [authCalls EXCEPT ![c].pc = "finally"]
  /\ user' = authCalls[c].email
  /\ setBy' = c
  /\ UNCHANGED <<clientVars, modalVars, goalVars,
                 isLoading, logouts, location, redirectTo>>
  /\ Rerender

\* ... and setIsLoading(false) of the finally block after it.
ProviderFinally(c) ==
  /\ authCalls[c].pc = "finally"
  /\ authCalls' = [authCalls EXCEPT ![c].pc = "settled"]
  /\ isLoading' = FALSE
  /\ UNCHANGED <<clientVars, modalVars, goalVars,
                 user, logouts, setBy, location, redirectTo>>
  /\ Rerender

\* logout(): setUser(null).
ProviderLogout ==
  /\ ProviderReady
  /\ logouts < MaxSignOut
  /\ logouts' = logouts + 1
  /\ user' = NoUser
  /\ UNCHANGED <<clientVars, modalVars, goalVars,
                 isLoading, authCalls, setBy, location, redirectTo>>
  /\ Rerender

\* The router shows another protected path.
Navigate(p) ==
  /\ ProviderReady
  /\ p # location
  /\ location' = p
  /\ UNCHANGED <<clientVars, modalVars, goalVars,
                 user, isLoading, authCalls, logouts, setBy,
                 redirectTo>>
  /\ Rerender

InitProvider ==
  /\ ClientIdle
  /\ ProviderStart(NCall, RedirectProps, ProtectedPaths)
  /\ ModalStart({"min2"})
  /\ GoalsStart(0, {0})

NextProvider ==
  \/ \E c \in Calls : \E k \in {"login", "register"} : \E e \in Emails :
       ProviderCall(c, k, e)
  \/ \E c \in Calls : ProviderSettle(c)
  \/ \E c \in Calls : ProviderSetUser(c)
  \/ \E c \in Calls : ProviderFinally(c)
  \/ ProviderLogout
  \/ \E p \in ProtectedPaths : Navigate(p)

SpecProvider == InitProvider /\ [][NextProvider]_vars

\* ----------------------------------------------------------- search modals
\* The parent opens the modal (isOpen = true).
OpenModal ==
  /\ modal = "closed"
  /\ modal' = "open"
  /\ UNCHANGED <<clientVars, providerVars, goalVars,
                 modalKind, searchQuery, searching,
                 searchResults, debounceTimerRef, timers, timerIds, inflight,
                 searches, sinceChange>>

\* Mutant of ClearPrevious: the previous timer is left alone.
ClearPreviousNot(T, ref) == T

\* clearTimeout(debounceTimerRef.current), when the ref is set: the timer with
\* that id, if it is still pending, is cancelled.
ClearPrevious(T, ref) == {t \in T : t.id # ref}

\* handleSearchChange(value): the query is stored, the previous timer is
\* cleared and a new one is set for performSearch(value).  The searchbar
\* delivers input while the modal is open.
HandleSearchChange(q) ==
  /\ modal = "open"
  /\ timerIds < MaxChanges
  /\ searchQuery' = q
  /\ timerIds' = timerIds + 1
  /\ timers' = ClearPrevious(timers, debounceTimerRef)
                  \cup {[id |-> timerIds + 1, value |-> q, left |-> DEBOUNCE_DELAY]}
  /\ debounceTimerRef' = timerIds + 1
  /\ sinceChange' = 0
  /\ UNCHANGED <<clientVars, providerVars, goalVars,
                 modalKind, modal, searching,
                 searchResults, inflight, searches>>

\* 100 ms pass.  A timer fires when its delay has passed, or later.
Tick ==
  /\ sinceChange < DEBOUNCE_DELAY \/ \E t \in timers : t.left > 0
  /\ timers' = {[t EXCEPT !.left = IF t.left > 0 THEN t.left - 1 ELSE 0] :
                  t \in timers}
  /\ sinceChange' = IF sinceChange < DEBOUNCE_DELAY THEN sinceChange + 1
                                                     ELSE sinceChange
  /\ UNCHANGED <<clientVars, providerVars, goalVars,
                 modalKind, modal, searchQuery,
                 searching, searchResults, debounceTimerRef, timerIds,
                 inflight, searches>>

\* A timer fires: performSearch(value) runs up to its await.  A query that
\* fails the test clears the results; any other is handed to onSearch.
PerformSearch(t) ==
  /\ t \in timers /\ t.left = 0
  /\ timers' = timers \ {t}
  /\ searches' = Append(searches, t.value)
  /\ IF Searchable(modalKind, t.value)
       THEN /\ searching' = TRUE
            /\ inflight' = inflight \cup {[n |-> Len(searches) + 1, q |-> t.value]}
            /\ UNCHANGED searchResults
       ELSE /\ searchResults' = ""
            /\ searching' = IF modalKind = "trim" THEN FALSE ELSE searching
            /\ UNCHANGED inflight
  /\ UNCHANGED <<clientVars, providerVars, goalVars,
                 modalKind, modal, searchQuery,
                 debounceTimerRef, timerIds, sinceChange>>

\* onSearch answers (ok: the results of its query) or rejects: the results
\* are set or emptied, and the finally block resets searching.
SearchAnswers(c, ok) ==
  /\ c \in inflight
  /\ inflight' = inflight \ {c}
  /\ searchResults' = IF ok THEN c.q ELSE ""
  /\ searching' = FALSE
  /\ UNCHANGED <<clientVars, providerVars, goalVars,
                 modalKind, modal, searchQuery,
                 debounceTimerRef, timers, timerIds, searches, sinceChange>>

\* handleClose: the timer of the ref is cleared, the state is reset and the
\* parent is told (onClose sets isOpen to false).
HandleClose ==
  /\ timers' = ClearPrevious(timers, debounceTimerRef)
  /\ searchQuery' = ""
  /\ searchResults' = ""
  /\ searching' = FALSE
  /\ UNCHANGED <<clientVars, providerVars, goalVars,
                 modalKind, debounceTimerRef,
                 timerIds, inflight, searches, sinceChange>>

\* The Close button: handleClose now, and again when the modal has gone.
CloseButton ==
  /\ modal = "open"
  /\ modal' = "dismissing"
  /\ HandleClose

\* onDidDismiss: the modal has gone, after its button or by a gesture.
DidDismiss ==
  /\ modal \in {"open", "dismissing"}
  /\ modal' = "closed"
  /\ HandleClose

InitSearch ==
  /\ ClientIdle
  /\ ProviderStart(0, {NotGiven}, {"/dashboard"})
  /\ ModalStart({"trim", "min2"})
  /\ GoalsStart(0, {0})

NextSearch ==
  \/ OpenModal
  \/ \E q \in Queries : HandleSearchChange(q)
  \/ Tick
  \/ \E t \in timers : PerformSearch(t)
  \/ \E c \in inflight : \E ok \in BOOLEAN : SearchAnswers(c, ok)
  \/ CloseButton
  \/ DidDismiss

SpecSearch == InitSearch /\ [][NextSearch]_vars

\* ---------------------------------------------------------------- useGoals
GoalCalls == DOMAIN goalCalls

\* createGoal(input) / updateGoal(goalId, input) up to their await of the
\* goals service; op is "create" (g = 0) or "update" of goal g.
GoalCall(c, op, g) ==
  /\ goalCalls[c].pc = "new"
  /\ \A d \in GoalCalls : d < c => goalCalls[d].pc # "new"
  /\ goalCalls' = [goalCalls EXCEPT ![c].op = op, ![c].goalId = g,
                                    ![c].pc = "pending"]
  /\ UNCHANGED <<clientVars, providerVars, modalVars, goals, goalsError,
                 summary, summaryLoading, summaryCalls, goalIds>>

\* setGoals((prev) => [...prev, newGoal]).
Appended(prev, g) == Append(prev, g)

\* Mutant of Replaced: the entry is taken out and the updated goal is put at
\* the end.
ReplacedAtEnd(prev, id, g) ==
  LET I == {i \in 1..Len(prev) : prev[i].id = id}
      F[i \in 0..Len(prev)] ==
        IF i = 0 THEN <<>>
        ELSE IF i \in I THEN F[i - 1] ELSE Append(F[i - 1], prev[i])
  IN IF I = {} THEN prev ELSE Append(F[Len(prev)], g)

\* setGoals((prev) => prev.map((goal) => goal.id === goalId ? updatedGoal : goal)).
Replaced(prev, id, g) ==
  [i \in 1..Len(prev) |-> IF prev[i].id = id THEN g ELSE prev[i]]

\* refreshSummary() up to its await: setSummaryLoading(true), getSummary goes
\* out.
RefreshSummary ==
  /\ summaryLoading' = TRUE
  /\ summaryCalls' = summaryCalls + 1

\* The service answers call c with success and the goal: a created goal gets
\* the next id, an updated goal keeps its id and is a new revision.  The
\* list is updated, the summary is refreshed and the goal is returned.
GoalSucceeds(c) ==
  /\ goalCalls[c].pc = "pending"
  /\ LET g == IF goalCalls[c].op = "create" THEN Goal(goalIds + 1, 0)
                                            ELSE Goal(goalCalls[c].goalId, c)
     IN /\ goals' = IF goalCalls[c].op = "create"
                      THEN Appended(goals, g)
                      ELSE Replaced(goals, goalCalls[c].goalId, g)
        /\ goalCalls' = [goalCalls EXCEPT ![c].pc = "done", ![c].answer = "ok",
                                          ![c].ret = g]
  /\ goalIds' = IF goalCalls[c].op = "create" THEN goalIds + 1 ELSE goalIds
  /\ RefreshSummary
  /\ UNCHANGED <<clientVars, providerVars, modalVars, goalsError, summary>>

\* The answers that are no success: a response without success or without
\* data, or a rejected call.
GoalFailures == {"unsuccessful", "error"}

\* createGoal sets the error state in its catch block, updateGoal does not.
ErrorAfter(op, how, err) ==
  IF op = "create" /\ how = "error" THEN "Failed to create goal" ELSE err

\* Call c fails: it returns null.
GoalFails(c, how) ==
  /\ goalCalls[c].pc = "pending"
  /\ goalCalls' = [goalCalls EXCEPT ![c].pc = "done", ![c].answer = how,
                                    ![c].ret = NullGoal]
  /\ goalsError' = ErrorAfter(goalCalls[c].op, how, goalsError)
  /\ UNCHANGED <<clientVars, providerVars, modalVars, goals, summary,
                 summaryLoading, summaryCalls, goalIds>>

\* A getSummary call answers (ok: with a summary) or fails: the summary is
\* set or kept, and the finally block resets summaryLoading.
SummaryAnswers(ok) ==
  /\ summaryCalls > 0
  /\ summaryCalls' = summaryCalls - 1
  /\ summary' = IF ok THEN summary + 1 ELSE summary
  /\ summaryLoading' = FALSE
  /\ UNCHANGED <<clientVars, providerVars, modalVars, goals, goalsError,
                 goalCalls, goalIds>>

InitGoals ==
  /\ ClientIdle
  /\ ProviderStart(0, {NotGiven}, {"/dashboard"})
  /\ ModalStart({"min2"})
  /\ GoalsStart(NGoalCall, 0..MaxGoals)

NextGoals ==
  \/ \E c \in GoalCalls : GoalCall(c, "create", 0)
  \/ \E c \in GoalCalls : \E g \in 1..(MaxGoals + 1) : GoalCall(c, "update", g)
  \/ \E c \in GoalCalls : GoalSucceeds(c)
  \/ \E c \in GoalCalls : \E how \in GoalFailures : GoalFails(c, how)
  \/ \E ok \in BOOLEAN : SummaryAnswers(ok)

SpecGoals == InitGoals /\ [][NextGoals]_vars

\* ============================================================ properties
\* Positions of the handler that runs one refresh attempt.
HandlerPcs == {"getRT", "refreshing", "hSet", "hClr"}

Handlers == {r \in Req : pc[r] \in HandlerPcs}

Attempts == 1..Len(attempts)

\* C1: single-flight refresh: at most one POST /auth/refresh is in flight at
\* any time, at most one refresh handler runs at a time and it runs under the
\* flag, so a 401 that arrives while the flag is set never starts a second
\* refresh.
SingleFlightRefresh ==
  /\ Cardinality({r \in Req : pc[r] = "refreshing"}) <= 1
  /\ Cardinality(Handlers) <= 1
  /\ Cardinality({i \in Attempts : ~attempts[i].ended}) <= 1
  /\ Handlers # {} => isRefreshing

\* C1 witness: a refresh call is in flight and two more 401s have been queued
\* behind it.
SingleFlightWitness ==
  /\ \E r \in Req : pc[r] = "refreshing"
  /\ Len(failedQueue) >= 2

\* C2 (as claimed): every caller that got a 401 on its first attempt settles:
\* once every request has been submitted and no request, replay or refresh is
\* outstanding any more, no caller's promise is still pending on the queue.
Quiescent == \A r \in Req : pc[r] \in {"queued", "done"}

EveryCallerSettles == Quiescent => \A r \in Req : pc[r] = "done"

\* C3 (as claimed): every request is handed to the transport at most twice,
\* the original attempt and one replay.
NoDoubleRetry == \A r \in Req : sends[r] <= 2

\* C4 (as claimed): every request queued during a refresh attempt gets the
\* outcome of that attempt: once the attempt has ended, the request has been
\* released by it, replayed if the refresh succeeded and rejected otherwise.
SameOutcomeForQueued ==
  \A r \in Req :
    (qEpoch[r] # 0 /\ attempts[qEpoch[r]].ended) =>
      /\ rel[r].epoch = qEpoch[r]
      /\ rel[r].how = IF attempts[qEpoch[r]].outcome = "ok"
                        THEN "replayed" ELSE "rejected"

\* C5: the flag is cleared on every exit path of a refresh attempt: it is set
\* only while the handler of an attempt that has not ended is running, so once
\* every attempt has ended the flag is clear and the next first-attempt 401
\* starts a new attempt.
FlagAlwaysCleared ==
  /\ isRefreshing => \E r \in Handlers : ~attempts[AttemptOf(r)].ended
  /\ (\A i \in Attempts : attempts[i].ended) => ~isRefreshing
  /\ \A r \in Req :
       (pc[r] = "sent" /\ ~retry[r] /\ MacrotaskReady
          /\ \A i \in Attempts : attempts[i].ended)
       => ENABLED Respond401StartRefresh(r)

\* C5 witness: a first attempt ended on the success path, a second one on the
\* failure path with clearTokens throwing in the catch block, a third one on
\* the missing-refresh-token path, and the flag is clear.
FlagClearedWitness ==
  /\ Len(attempts) = 3
  /\ attempts[1].outcome = "ok"
  /\ attempts[2].outcome = "err" /\ attempts[2].threw
  /\ attempts[3].outcome = "noRT"
  /\ attempts[3].ended
  /\ ~isRefreshing

\* Replays of queued requests in the log, by position.
QueuedReplays == {i \in 1..Len(replayLog) : replayLog[i].seq # 0}

\* C6: FIFO replay: the queued requests one refresh attempt releases are
\* replayed in the order in which their 401s were queued.
FifoReplay ==
  \A i, j \in QueuedReplays :
    (i < j /\ replayLog[i].epoch = replayLog[j].epoch)
      => replayLog[i].seq < replayLog[j].seq

\* C6 witness: three requests A, B, C were queued in that order behind one
\* refresh and replayed by it.
FifoWitness ==
  \E i, j, k \in QueuedReplays :
    /\ i < j /\ j < k
    /\ replayLog[i].epoch = replayLog[k].epoch
    /\ replayLog[j].epoch = replayLog[k].epoch

\* C7 (as claimed): the stored access token and the stored refresh token, as a
\* reader finds them at any moment, belong to the same pair.
AtomicTokenUpdate ==
  (accessTok # NoToken /\ refreshTok # NoToken) => accessTok = refreshTok

\* C8 (as claimed): whenever no setTokens or clearTokens call is in progress,
\* the store holds both tokens or neither.
NoStorageCall == \A r \in Req : pc[r] \notin WritePcs

CredentialPairInvariant ==
  NoStorageCall => (accessTok = NoToken <=> refreshTok = NoToken)

\* The attempts triggered by the 401 of a first attempt that succeeded and
\* have ended: their triggering request has been resubmitted.
HappyAttempts ==
  {i \in Attempts :
     attempts[i].nth = 1 /\ attempts[i].outcome = "ok" /\ attempts[i].ended}

\* The triggering request of a successful attempt is resubmitted exactly once
\* and its caller is settled only by the response of the resubmitted request.
ReplayedOnce(i) ==
  LET r == attempts[i].trigger IN
  /\ sends[r] <= 2
  /\ pc[r] \in {"attach", "sent", "lClr", "done"}
  /\ pc[r] = "attach" => sends[r] = 1 /\ result[r] = "none"
  /\ pc[r] = "sent" => sends[r] = 2 /\ result[r] = "none"
  /\ pc[r] \in {"lClr", "done"} => sends[r] = 2 /\ result[r] \in {"ok", "E401"}

\* C9 (as claimed): happy path: after a successful refresh the triggering
\* request is resubmitted exactly once, carrying the new access token of that
\* refresh as its bearer header, and the caller receives the response of the
\* resubmitted request.
HappyPath ==
  \A i \in HappyAttempts :
    /\ ReplayedOnce(i)
    /\ sends[attempts[i].trigger] = 2 => hdr[attempts[i].trigger] = attempts[i].tok

\* C9 (amended): as claimed, except for the bearer header: the resubmitted
\* request carries the access token the Token Store holds when the request
\* interceptor sends it, and the new access token of its refresh when the store
\* holds none by then.
HappyPathAmended ==
  /\ [](\A i \in HappyAttempts : ReplayedOnce(i))
  /\ [][\A i \in HappyAttempts :
          LET r == attempts[i].trigger IN
          (pc[r] = "attach" /\ pc'[r] = "sent") =>
            hdr'[r] = IF accessTok # NoToken THEN accessTok ELSE attempts[i].tok]_vars

\* C9 witness: a request triggered a refresh that succeeded, was resubmitted
\* with the new access token, and its caller got the 200 of the resubmission.
HappyPathWitness ==
  \E i \in HappyAttempts :
    LET r == attempts[i].trigger IN
    /\ pc[r] = "done" /\ result[r] = "ok" /\ sends[r] = 2
    /\ hdr[r] = attempts[i].tok

\* C10 (as claimed): missing refresh token: the refresh endpoint is not
\* called; once the attempt has ended the Token Store is empty, the flag is
\* clear unless a later attempt set it, and the triggering request and every
\* request queued during the attempt have been rejected with an error.
MissingRefreshToken ==
  \A i \in Attempts :
    attempts[i].outcome = "noRT" =>
      /\ ~attempts[i].called
      /\ attempts[i].ended =>
           /\ accessTok = NoToken /\ refreshTok = NoToken
           /\ (i = Len(attempts) => ~isRefreshing)
           /\ result[attempts[i].trigger] \in {"E401", "ENoRefreshToken"}
           /\ \A q \in Req :
                qEpoch[q] = i =>
                  /\ rel[q] = [epoch |-> i, how |-> "rejected"]
                  /\ result[q] = "ENoRefreshToken"

\* The refresh attempts whose call of the refresh endpoint failed (rejected, or
\* answered with success = false) and that have ended.
FailedAttempts ==
  {i \in Attempts : attempts[i].outcome \in {"fail", "err"} /\ attempts[i].ended}

\* C11 (as claimed): refresh failure: once an attempt whose refresh call failed
\* has ended, the Token Store is empty, the caller of the triggering request
\* has been rejected, and the caller of every request queued during the attempt
\* has been rejected with the same error as the triggering request.
RefreshFailure ==
  \A i \in FailedAttempts :
    /\ accessTok = NoToken /\ refreshTok = NoToken
    /\ result[attempts[i].trigger] \in {"E401", "ERefreshFailed", "ERefreshError"}
    /\ \A q \in Req :
         qEpoch[q] = i =>
           /\ rel[q] = [epoch |-> i, how |-> "rejected"]
           /\ result[q] = result[attempts[i].trigger]

\* The requests whose replay after a successful refresh was answered 401 and
\* rejected to the caller.
RejectedReplays ==
  {r \in Req : /\ retry[r] /\ sends[r] = 2 /\ result[r] = "E401"
               /\ attempts[AttemptOf(r)].outcome = "ok"}

\* C12 (as claimed): a 401 response to a request that has already been
\* replayed once is rejected to the caller and the stored tokens are cleared:
\* once such a caller has been rejected and no refresh handler or storage call
\* is running any more, the Token Store is empty.
RetriedRejectionClearsTokens ==
  (RejectedReplays # {} /\ Handlers = {} /\ NoStorageCall)
    => (accessTok = NoToken /\ refreshTok = NoToken)

\* C13: transport errors never trigger the refresh path: the step that hands a
\* request a failure other than a 401 rejects that failure to the caller as it
\* came, and leaves the flag, the queue and the Token Store as they were and
\* starts no refresh attempt and no refresh call.
TransportErrorsBypassRefresh ==
  [][\A r \in Req :
       (pc[r] = "sent" /\ pc'[r] # "sent" /\ resp'[r] \in TransportErrors) =>
         /\ pc'[r] = SettledPc(r)
         /\ result'[r] = resp'[r]
         /\ UNCHANGED <<isRefreshing, failedQueue, accessTok, refreshTok,
                        attempts>>]_vars

\* C13 witness: the replay of a queued request failed on the network, the
\* replay of the request that triggered that refresh failed with a status
\* other than 401, and the refresh call of a later attempt is in flight.
TransportErrorWitness ==
  /\ \E r \in Req : result[r] = "ENetwork" /\ sends[r] = 2 /\ qEpoch[r] # 0
  /\ \E r \in Req : result[r] = "EStatus" /\ sends[r] = 2 /\ retry[r]
  /\ \E r \in Req : pc[r] = "refreshing"

\* C14 (as claimed): outbound phase: every request the request interceptor
\* sends, a replay included, carries as bearer header the access token the
\* Token Store holds at that moment, and no Authorization header when the
\* store holds no access token.
OutboundHeader ==
  [][\A r \in Req :
       (pc[r] = "attach" /\ pc'[r] = "sent") => hdr'[r] = accessTok]_vars

\* The refresh attempts whose refresh response lacked a token and that have
\* ended.
MalformedAttempts ==
  {i \in Attempts : attempts[i].outcome = "malformed" /\ attempts[i].ended}

\* C15 (as claimed): a refresh response whose body lacks the new access token
\* or the new refresh token is treated as a refresh failure: once the attempt
\* has ended the Token Store is empty (nothing of the response was stored),
\* the triggering request has been rejected without a replay, and every
\* request queued during the attempt has been rejected.
MalformedRefreshFails ==
  \A i \in MalformedAttempts :
    LET t == attempts[i].trigger IN
    /\ accessTok = NoToken /\ refreshTok = NoToken
    /\ pc[t] = "done" /\ sends[t] = attempts[i].nth
    /\ result[t] \in {"E401", "ERefreshFailed", "ERefreshError"}
    /\ \A q \in Req : qEpoch[q] = i => rel[q] = [epoch |-> i, how |-> "rejected"]

\* The attempts still running.
OpenAttempts == {i \in Attempts : ~attempts[i].ended}

\* C16: one refresh per failure wave: a 401 that arrives while a refresh
\* attempt is running starts no attempt and no refresh call, so the requests
\* whose 401s arrive before the attempt ends share its one call; an attempt
\* calls the refresh endpoint at most once, exactly once if it found a refresh
\* token; and the failure of the refresh call starts no other attempt and
\* puts nothing on the queue.
OneRefreshPerWave ==
  /\ [](\A i \in Attempts :
          /\ attempts[i].calls <= 1
          /\ (attempts[i].ended /\ attempts[i].outcome # "noRT")
               => attempts[i].calls = 1)
  /\ [][\A r \in Req :
          /\ (pc[r] = "sent" /\ pc'[r] # "sent" /\ resp'[r] = "401"
                /\ OpenAttempts # {})
             => (Len(attempts') = Len(attempts)
                   /\ \A i \in Attempts : attempts'[i].calls = attempts[i].calls)
          /\ (pc[r] = "refreshing" /\ pc'[r] = "hClr")
             => (Len(attempts') = Len(attempts)
                   /\ Range(failedQueue') \subseteq Range(failedQueue))]_vars

\* C16 witness: a wave of three requests: the first 401 started a refresh,
\* the other two arrived during it and were queued, and the attempt has ended
\* after one call of the refresh endpoint without another attempt.
OneRefreshWitness ==
  /\ Len(attempts) = 1
  /\ attempts[1].ended /\ attempts[1].calls = 1
  /\ Cardinality({q \in Req : qEpoch[q] = 1 /\ rel[q].epoch = 1}) = 2

\* C17 (as claimed): pending-queue lifecycle: a record is on the queue only
\* while the flag is set: in every reachable state in which the flag is clear
\* the queue is empty and no caller is waiting on it.
QueueLifecycle ==
  ~isRefreshing => (failedQueue = <<>> /\ \A r \in Req : pc[r] # "queued")

\* The attempts whose refresh call succeeded and that have ended.
SucceededAttempts ==
  {i \in Attempts : attempts[i].outcome = "ok" /\ attempts[i].ended}

LogoutClears ==
  /\ [](\A r \in Req :
          (kind[r] = "logout" /\ result[r] # "none") => pc[r] \in {"lClr", "done"})
  /\ [][\A r \in Req :
          (pc[r] = "lClr" /\ pc'[r] = "done")
            => (accessTok' = NoToken /\ refreshTok' = NoToken)]_vars

\* The storage call request r is completing in this step has written value v
\* under every key: under the keys written before, and under the last one now.
CallWrote(r, v) ==
  /\ "a" \in written[r] \/ accessTok' = v
  /\ "r" \in written[r] \/ refreshTok' = v
  /\ written'[r] = {}

\* C20 (as claimed): authService.refreshToken resolves to true only in the
\* step in which its setTokens call has stored the new pair of the refresh
\* response; every other call resolves to false and none stays pending or
\* rejects: without a stored refresh token it returns false without sending
\* anything and without touching the Token Store, and otherwise it returns false
\* in the step in which its clearTokens call has removed both tokens.
RefreshTokenContract ==
  /\ [](\A r \in Req :
          (kind[r] = "refresh" /\ pc[r] = "done") => result[r] \in {"true", "false"})
  /\ [](Quiescent => \A r \in Req : kind[r] = "refresh" => pc[r] = "done")
  /\ [][\A r \in Req :
          (kind[r] = "refresh" /\ pc[r] # "done" /\ pc'[r] = "done") =>
            CASE result'[r] = "true" ->
                   pc[r] = "sSet" /\ Truthy(newTok[r]) /\ CallWrote(r, newTok[r])
              [] result'[r] # "true" /\ pc[r] = "sGetRT" ->
                   /\ result'[r] = "false" /\ sends[r] = 0
                   /\ refreshTok = NoToken
                   /\ UNCHANGED <<accessTok, refreshTok>>
              [] OTHER ->
                   /\ result'[r] = "false" /\ pc[r] = "sClr"
                   /\ CallWrote(r, NoToken)]_vars

\* The calls of authService.login and authService.register.
Logins == {r \in Req : kind[r] \in LoginKinds}

\* The value a successful login or register is to keep under key k: the token
\* of the response under the access key; under the refresh key the refresh
\* token of the response, or the token again when the response carries none.
LoginKeeps(r, k) ==
  IF k = "r" /\ "r" \in lacks[r] THEN AsRefreshToken(newTok[r]) ELSE newTok[r]

\* C21: authService.login and authService.register: a response that reports
\* success makes the call await setTokens without returning; every write of
\* that call stores the access token of the response under the access key and
\* its refresh token (the access token when the response carries none) under
\* the refresh key, and the user is returned only in the step in which the
\* last of both writes completes.  A response that reports failure makes the
\* call throw in the same step, with the Token Store unchanged.
LoginContract ==
  [][\A r \in Logins :
       /\ (pc[r] = "sent" /\ resp'[r] = "200" /\ pc'[r] # "done")
            => /\ pc'[r] = "aSet" /\ result'[r] = result[r]
               /\ Truthy(newTok'[r])
               /\ UNCHANGED <<accessTok, refreshTok>>
       /\ (pc[r] = "sent" /\ resp'[r] = "200" /\ pc'[r] = "done")
            => /\ result'[r] = LoginError(kind[r])
               /\ written[r] = {} /\ written'[r] = {}
               /\ UNCHANGED <<accessTok, refreshTok>>
       /\ (result'[r] = "user" /\ result[r] # "user")
            => pc[r] = "aSet" /\ pc'[r] = "done" /\ written'[r] = {}
       /\ pc[r] = "aSet"
            => /\ pc'[r] = "done" => result'[r] = "user"
               /\ ("a" \in written'[r] \ written[r]
                     \/ (pc'[r] = "done" /\ "a" \notin written[r]))
                    => accessTok' = LoginKeeps(r, "a")
               /\ ("r" \in written'[r] \ written[r]
                     \/ (pc'[r] = "done" /\ "r" \notin written[r]))
                    => refreshTok' = LoginKeeps(r, "r")]_vars

\* A register call that got 401 during a refresh and was replayed from the
\* queue, and whose response then carried no refresh token, has returned the
\* user, and the Token Store holds the token of its response under both keys.
LoginWitness ==
  \E r \in Logins :
    /\ kind[r] = "register" /\ result[r] = "user" /\ lacks[r] = {"r"}
    /\ rel[r].how = "replayed" /\ sends[r] = 2
    /\ accessTok = newTok[r] /\ refreshTok = AsRefreshToken(newTok[r])

\* C22: ProtectedRoute renders the protected component only while
\* isAuthenticated is true and isLoading is false; while isLoading is true it
\* renders nothing; when neither loading nor authenticated it redirects to
\* redirectTo ("/login" when the prop is not given), carrying the location.
ProtectedRouteGuards ==
  /\ rendered.what = "component" <=> (IsAuthenticated(user) /\ ~isLoading)
  /\ isLoading => rendered.what = "null"
  /\ (~isLoading /\ ~IsAuthenticated(user))
       => /\ rendered.what = "redirect"
          /\ rendered.to = (IF redirectTo = NotGiven THEN "/login"
                                                     ELSE redirectTo)
          /\ rendered.from = location

\* A signed-in user has started another login: the route shows nothing although
\* the user is authenticated; the route was entered at another path before.
ProtectedRouteWitness ==
  /\ IsAuthenticated(user) /\ isLoading /\ rendered.what = "null"
  /\ logouts = 1 /\ redirectTo = NotGiven /\ location = "/goals"
  /\ \E c \in Calls : authCalls[c].pc = "pending" /\ authCalls[c].epoch = 1

\* C23: search debounce of the add-friend and invite modals: at most one
\* search timer is pending at any time, and none while the modal is not open;
\* a search starts only in an open modal, DEBOUNCE_DELAY or more after the
\* last input change and for the value of that change, so of a burst of
\* changes closer together than DEBOUNCE_DELAY only the last value is
\* searched and no search starts after the modal was closed.
SearchDebounce ==
  /\ [](Cardinality(timers) <= 1)
  /\ [](modal # "open" => timers = {})
  /\ [][searches' # searches =>
          /\ modal = "open"
          /\ sinceChange >= DEBOUNCE_DELAY
          /\ searches' = Append(searches, searchQuery)
          /\ \E t \in timers : t.id = debounceTimerRef /\ t.value = searchQuery]_vars

\* Three input changes: the first two in a burst, of which only the second
\* value was searched; the third was followed by the Close button within the
\* delay, which cancelled its timer, and the modal has gone.
SearchDebounceWitness ==
  /\ timerIds = 3 /\ searches = <<"ab">>
  /\ modal = "closed" /\ timers = {} /\ debounceTimerRef = 3
  /\ sinceChange < DEBOUNCE_DELAY
  /\ inflight = {}

\* The POST /auth/refresh calls that are outstanding: the one of the running
\* interceptor handler, and those authService.refreshToken sent through the
\* API client.
RefreshPosts ==
  {r \in Req : pc[r] = "refreshing"}
    \cup {r \in Req : kind[r] = "refresh" /\ pc[r] = "sent"}

\* C24 (as claimed): across the whole client at most one POST /auth/refresh is
\* outstanding at any time, and a 401 answer to the refresh request of
\* authService.refreshToken makes the interceptor issue no further refresh
\* call.
OneRefreshAcrossClient ==
  /\ Cardinality(RefreshPosts) <= 1
  /\ \A i \in Attempts :
       kind[attempts[i].trigger] = "refresh" => ~attempts[i].called

\* C25 (as claimed): logout is final with respect to a refresh in flight: once
\* a call of authService.logout has completed, the Token Store stays empty
\* (there is no login or registration in this specification); a refresh the
\* interceptor started before does not store tokens again.
LogoutIsFinal ==
  (\E r \in Req : kind[r] = "logout" /\ pc[r] = "done")
    => (accessTok = NoToken /\ refreshTok = NoToken)

\* The calls of login and register that have failed.
FailedLogins == {r \in Logins : pc[r] = "done" /\ result[r] # "user"}

\* C26 (as claimed): a failed authService.login or authService.register,
\* including one the server rejected with 401, leaves the Token Store as it
\* was and issues no call to the refresh endpoint: the refresh attempt its 401
\* triggered, if any, has neither called the refresh endpoint nor stored
\* tokens, and the clearTokens call that precedes the rejection of a login or
\* register call changes nothing in the store.
FailedLoginIsInert ==
  /\ [](\A i \in Attempts :
          attempts[i].trigger \in FailedLogins
            => (~attempts[i].called /\ attempts[i].outcome # "ok"))
  /\ [][\A r \in Logins :
          (pc[r] = "hClr" /\ (written'[r] # written[r] \/ pc'[r] # "hClr"))
            => UNCHANGED <<accessTok, refreshTok>>]_vars

\* C27 (as claimed): AuthProvider: isAuthenticated is true exactly when user is
\* not null (what the route below the provider rendered shows the component
\* only for a user); logout sets user to null and leaves isLoading unchanged;
\* and after logout user stays null until a login or register call started
\* after that logout completes: the call that gave user its value was started
\* after the last logout.
ProviderState ==
  /\ [](IsAuthenticated(user) <=> user \in Emails)
  /\ [](rendered.what = "component" => user \in Emails)
  /\ [][logouts' # logouts => (user' = NoUser /\ isLoading' = isLoading)]_vars
  /\ [](user # NoUser => authCalls[setBy].epoch >= logouts)

\* The calls of login and register that have not settled yet.
PendingCalls == {c \in Calls : authCalls[c].pc \in {"pending", "finally"}}

\* C28 (as claimed): AuthProvider.isLoading is true in every state in which a
\* login or register call is pending, also when several calls overlap, and
\* false once all of them have settled.
LoadingTracksCalls == isLoading <=> PendingCalls # {}

====
